---- MODULE Spec2Model ----
(***************************************************************************)
(* Model of tdta.tdt_export: the reconstruction of a CellTypeAnnotation    *)
(* document from the views of a TDT sqlite database.                       *)
(*                                                                         *)
(* Text is a sequence of lexemes (a one-character lexeme is a character),  *)
(* so that endswith, startswith, replace, ast.literal_eval and json.loads  *)
(* are computed on the text and not assumed.  Every Python value is a      *)
(* tagged record [t, v]; an object is a function from attribute names to   *)
(* values (vars(obj) is its DOMAIN).                                       *)
(***************************************************************************)
EXTENDS Integers, Sequences, FiniteSets, TLC

\* ---------------------------------------------------------------- bounds
MaxTables == 3
MaxCols == 3

\* ---------------------------------------------------------------- values
None == [t |-> "none", v |-> <<>>]
Str(s) == [t |-> "str", v |-> s]
ListVal(s) == [t |-> "list", v |-> s]
Objs(s) == [t |-> "objs", v |-> s]
Obj(o) == [t |-> "obj", v |-> o]

\* x == y on values: values of different types are unequal
ValEq(x, y) == x.t = y.t /\ x.v = y.v

\* Python truthiness (`if value:`, `if not cta.annotations`)
Truthy(x) ==
    CASE x.t = "none" -> FALSE
      [] x.t = "obj" -> TRUE
      [] OTHER -> x.v # <<>>

\* str(x)
PyStr(x) ==
    CASE x.t = "none" -> <<"None">>
      [] x.t = "list" -> <<"[">> \o x.v \o <<"]">>
      [] OTHER -> x.v

\* exceptions
NoErr == "none"
Ok(o) == [err |-> NoErr, obj |-> o]
Raise(e, o) == [err |-> e, obj |-> o]

\* str.endswith / str.startswith on one suffix or prefix
EndsWith(s, suf) ==
    /\ Len(s) >= Len(suf)
    /\ SubSeq(s, Len(s) - Len(suf) + 1, Len(s)) = suf

StartsWith(s, pre) ==
    /\ Len(s) >= Len(pre)
    /\ SubSeq(s, 1, Len(pre)) = pre

Contains(seq, x) == \E i \in 1..Len(seq) : seq[i] = x

\* list.index(x): the first position of x (the caller checks Contains)
Index(seq, x) ==
    CHOOSE i \in 1..Len(seq) : seq[i] = x /\ \A j \in 1..(i - 1) : seq[j] # x

\* ------------------------------------------------------ ast.literal_eval
LiteralLex == {"1", "2", "3"}

RECURSIVE ParseItems(_, _, _, _)
ParseItems(inner, i, acc, expectItem) ==
    IF i > Len(inner) THEN [ok |-> TRUE, val |-> ListVal(acc)]
    ELSE IF expectItem
         THEN IF inner[i] \in LiteralLex
              THEN ParseItems(inner, i + 1, Append(acc, inner[i]), FALSE)
              ELSE [ok |-> FALSE, val |-> None]
         ELSE IF inner[i] = ","
              THEN ParseItems(inner, i + 1, acc, TRUE)
              ELSE [ok |-> FALSE, val |-> None]

\* ast.literal_eval of a text that starts with "[" and ends with "]"
LiteralEval(s) == ParseItems(SubSeq(s, 2, Len(s) - 1), 1, <<>>, TRUE)

\* ------------------------------------------------------------ json.loads
JsonPunct == {"[", "]", "{", "}", ":", ","}
JsonFail == [ok |-> FALSE, obj |-> <<>>, next |-> 0]

DictSet(d, k, x) == [n \in DOMAIN d \cup {k} |-> IF n = k THEN x ELSE d[n]]

RECURSIVE ParsePairs(_, _, _)
ParsePairs(s, i, acc) ==
    IF i + 3 > Len(s) \/ s[i] \in JsonPunct \/ s[i + 1] # ":" \/ s[i + 2] \in JsonPunct
    THEN JsonFail
    ELSE LET acc2 == DictSet(acc, s[i], Str(<<s[i + 2]>>))
         IN  IF s[i + 3] = "," THEN ParsePairs(s, i + 4, acc2)
             ELSE IF s[i + 3] = "}" THEN [ok |-> TRUE, obj |-> acc2, next |-> i + 4]
             ELSE JsonFail

ParseObj(s, i) ==
    IF i + 1 > Len(s) \/ s[i] # "{" THEN JsonFail
    ELSE IF s[i + 1] = "}" THEN [ok |-> TRUE, obj |-> <<>>, next |-> i + 2]
    ELSE ParsePairs(s, i + 1, <<>>)

RECURSIVE ParseObjs(_, _, _)
ParseObjs(s, i, acc) ==
    LET r == ParseObj(s, i)
    IN  IF ~r.ok \/ r.next > Len(s) THEN [ok |-> FALSE, val |-> <<>>]
        ELSE IF s[r.next] = "]"
             THEN [ok |-> r.next = Len(s), val |-> Append(acc, r.obj)]
        ELSE IF s[r.next] = ","
             THEN ParseObjs(s, r.next + 1, Append(acc, r.obj))
        ELSE [ok |-> FALSE, val |-> <<>>]

\* json.loads of a text holding a list of objects with text values
JsonLoads(s) ==
    IF Len(s) < 2 \/ s[1] # "[" THEN [ok |-> FALSE, val |-> <<>>]
    ELSE IF s[2] = "]" THEN [ok |-> Len(s) = 2, val |-> <<>>]
    ELSE ParseObjs(s, 2, <<>>)

\* --------------------------------------------------------------- objects
HasAttr(obj, name) == name \in DOMAIN obj
SetAttr(obj, name, x) == [n \in DOMAIN obj \cup {name} |-> IF n = name THEN x ELSE obj[n]]

message == <<"message">>
row_number == <<"row_number">>
cell_label == <<"cell_label">>
cell_set_accession == <<"cell_set_accession">>
custom_field == <<"custom_field">>
user_annotations == <<"user_annotations">>
transferred_annotations == <<"transferred_annotations">>
target_node_accession == <<"target_node_accession">>
transferred_cell_label == <<"transferred_cell_label">>
algorithm_name == <<"algorithm_name">>
algorithm_version == <<"algorithm_version">>
automated_annotation == <<"automated_annotation">>
labelset_name == <<"name">>
author_name == <<"author_name">>
annotations == <<"annotations">>
labelsets == <<"labelsets">>

\* Annotation("", "")
NewAnnotation ==
    (cell_label :> Str(<<>>)) @@ (cell_set_accession :> None)
      @@ (user_annotations :> None) @@ (transferred_annotations :> None)

\* AnnotationTransfer("", "", "", "", "")
NewAnnotationTransfer ==
    (transferred_cell_label :> Str(<<>>)) @@ (algorithm_name :> Str(<<>>))

\* Labelset("", "")
NewLabelset ==
    (labelset_name :> Str(<<>>)) @@ (automated_annotation :> None)

\* AutomatedAnnotation("", "", "", "")
NewAutomatedAnnotation ==
    (algorithm_name :> Str(<<>>)) @@ (algorithm_version :> Str(<<>>))

\* CellTypeAnnotation("", list())
NewCellTypeAnnotation ==
    (author_name :> Str(<<>>)) @@ (annotations :> Objs(<<>>)) @@ (labelsets :> None)

\* UserAnnotation(column, value)
UserAnnotation(column, value) == [label |-> column, value |-> value]

\* ------------------------------------------- auto_fill_object_from_row
\* lines 166-171: the positional value of one column
FillPositional(obj, columns, row, column) ==
    IF ~HasAttr(obj, column) THEN Ok(obj)
    ELSE LET value == row[Index(columns, column)]
         IN  IF ~Truthy(value) THEN Ok(obj)
             ELSE IF value.t # "str" THEN Raise("AttributeError", obj)  \* no startswith
             ELSE IF StartsWith(value.v, <<"[">>) /\ EndsWith(value.v, <<"]">>)
                  THEN LET p == LiteralEval(value.v)
                       IN  IF p.ok THEN Ok(SetAttr(obj, column, p.val))
                           ELSE Raise("ValueError", obj)
             ELSE Ok(SetAttr(obj, column, value))

\* lines 175-177: the overrides of a decoded message, in order
RECURSIVE ApplyMessages(_, _, _, _)
ApplyMessages(obj, columns, messages, k) ==
    IF k > Len(messages) THEN Ok(obj)
    ELSE LET msg == messages[k]
         IN  IF "column" \notin DOMAIN msg THEN Raise("KeyError", obj)
             ELSE IF ~Contains(columns, msg["column"].v) THEN ApplyMessages(obj, columns, messages, k + 1)
             ELSE IF "value" \notin DOMAIN msg THEN Raise("KeyError", obj)
             ELSE ApplyMessages(SetAttr(obj, msg["column"].v, msg["value"]), columns, messages, k + 1)

\* lines 172-177: the message column of the row
FillMessages(obj, columns, row) ==
    IF Contains(columns, message) /\ Truthy(row[Index(columns, message)])
    THEN LET text == row[Index(columns, message)]
             d == JsonLoads(text.v)
         IN  IF text.t # "str" THEN Raise("TypeError", obj)
             ELSE IF ~d.ok THEN Raise("JSONDecodeError", obj)
             ELSE ApplyMessages(obj, columns, d.val, 1)
    ELSE Ok(obj)

\* the two halves of the iteration in the other order
FillColumnMessagesFirst(obj, columns, row, column) ==
    LET m == FillMessages(obj, columns, row)
    IN  IF m.err # NoErr THEN m ELSE FillPositional(m.obj, columns, row, column)

\* one iteration of the loop of line 165
FillColumn(obj, columns, row, column) ==
    LET r == FillPositional(obj, columns, row, column)
    IN  IF r.err # NoErr THEN r ELSE FillMessages(r.obj, columns, row)

RECURSIVE FillFrom(_, _, _, _)
FillFrom(obj, columns, row, i) ==
    IF i > Len(columns) THEN Ok(obj)
    ELSE LET r == FillColumn(obj, columns, row, columns[i])
         IN  IF r.err # NoErr THEN r ELSE FillFrom(r.obj, columns, row, i + 1)

auto_fill_object_from_row(obj, columns, row) == FillFrom(obj, columns, row, 1)

\* ------------------------------------------------------------ row inputs
\* texts a view can hold in an ordinary column
Neuron == Str(<<"Neuron">>)
EmptyStr == Str(<<>>)
ListText == Str(<<"[", "1", ",", "2", "]">>)
BadListText == Str(<<"[", "unknown", "]">>)

\* texts a view can hold in its message column
Override(column, value) == <<"{", "column", ":", column, ",", "value", ":", value, "}">>
MsgLabel == Str(<<"[">> \o Override("cell_label", "Corrected") \o <<"]">>)
MsgCustom == Str(<<"[">> \o Override("custom_field", "Fixed") \o <<"]">>)
MsgTwice ==
    Str(<<"[">> \o Override("cell_label", "First") \o <<",">>
          \o Override("cell_label", "Second") \o <<"]">>)
MsgOther == Str(<<"[">> \o Override("other_column", "X") \o <<"]">>)
MsgNoColumn == Str(<<"[", "{", "value", ":", "X", "}", "]">>)
MsgMalformed == Str(<<"[">> \o Override("cell_label", "Corrected"))
MsgEmptyList == Str(<<"[", "]">>)

FillValues == {None, EmptyStr, Neuron, ListText, BadListText}
MessageTexts == {None, EmptyStr, MsgLabel, MsgCustom, MsgTwice, MsgOther, MsgNoColumn, MsgMalformed, MsgEmptyList}
FillColumnNames == {cell_label, cell_set_accession, custom_field, message}
FillTargets == {NewAnnotation, NewAnnotationTransfer}

\* the column lists of a view: names are distinct
ColumnLists(names, n) ==
    {c \in UNION {[1..k -> names] : k \in 0..n} : \A i, j \in DOMAIN c : i # j => c[i] # c[j]}

\* the rows a view can hold under a column list
RowsOf(columns) ==
    {r \in [DOMAIN columns -> FillValues \cup MessageTexts] :
        \A i \in DOMAIN columns :
            IF columns[i] = message THEN r[i] \in MessageTexts ELSE r[i] \in FillValues}

VARIABLES fpc, fobj, fcolumns, frow, fres

fvars == <<fpc, fobj, fcolumns, frow, fres>>

FillInit ==
    /\ fpc = "idle"
    /\ fobj = NewAnnotation
    /\ fcolumns = <<>>
    /\ frow = <<>>
    /\ fres = Ok(NewAnnotation)

\* a caller hands a fresh entity, a column list and a row to the mapper
FillCall ==
    /\ fpc = "idle"
    /\ \E obj \in FillTargets, columns \in ColumnLists(FillColumnNames, MaxCols) :
        \E row \in RowsOf(columns) :
            /\ fobj' = obj
            /\ fcolumns' = columns
            /\ frow' = row
            /\ fres' = auto_fill_object_from_row(obj, columns, row)
    /\ fpc' = "returned"


\* ------------------------------------------------------------- database
View(cols, rws) == [exists |-> TRUE, columns |-> cols, rows |-> rws]
MissingView == [exists |-> FALSE, columns |-> <<>>, rows |-> <<>>]

t_annotation == <<"t", "_annotation">>
t_annotation_transfer == <<"t", "_annotation", "_transfer">>
t_labelset == <<"t", "_labelset">>
t_metadata == <<"t", "_metadata">>
table_table == <<"table">>
TableNames == {t_annotation, t_annotation_transfer, t_labelset, t_metadata, table_table}

table_column == <<"table">>
path_column == <<"path">>

\* table_view with one row per listed table
CatalogOf(names) ==
    View(<<path_column, table_column>>, [i \in DOMAIN names |-> <<None, Str(names[i])>>])

\* the contents table_view can have
CatalogViews ==
    {MissingView, View(<<path_column>>, << <<Str(<<"t.tsv">>)>> >>)}
      \cup {CatalogOf(names) : names \in UNION {[1..k -> TableNames] : k \in 0..MaxTables}}

CS1 == Str(<<"CS1">>)
CS2 == Str(<<"CS2">>)
CS9 == Str(<<"CS9">>)
Glia == Str(<<"Glia">>)
Foo == Str(<<"foo">>)
Cluster == Str(<<"cluster">>)
SciKit == Str(<<"SciKit-v2">>)
aa_algorithm_name == <<"automated_annotation_", "algorithm_name">>
aa_algorithm_version == <<"automated_annotation_", "algorithm_version">>

MetadataViews ==
    { MissingView,
      View(<<author_name>>, <<>>),
      View(<<author_name>>, << <<Str(<<"Ann">>)>>, <<Str(<<"Bob">>)>> >>) }

AnnotationViews ==
    { MissingView,
      View(<<cell_set_accession, cell_label, custom_field>>,
           << <<CS1, Neuron, Foo>>, <<CS1, Glia, None>> >>),
      View(<<cell_set_accession, cell_label, custom_field, message>>,
           << <<CS2, Neuron, Foo, MsgLabel>> >>),
      View(<<cell_set_accession, cell_label, custom_field, message>>,
           << <<CS1, Neuron, Foo, MsgCustom>> >>),
      View(<<cell_set_accession, cell_label, message>>,
           << <<CS1, Neuron, MsgMalformed>> >>) }

LabelsetViews ==
    { MissingView,
      View(<<labelset_name, aa_algorithm_name, aa_algorithm_version>>,
           << <<Cluster, EmptyStr, EmptyStr>>, <<Cluster, SciKit, Str(<<"2">>)>> >>),
      View(<<labelset_name>>, << <<Cluster>> >>) }

TransferViews ==
    { MissingView,
      View(<<target_node_accession, transferred_cell_label>>,
           << <<CS1, Neuron>>, <<CS9, Glia>>, <<CS1, Glia>>, <<EmptyStr, Glia>> >>),
      View(<<transferred_cell_label>>, << <<Neuron>> >>),
      View(<<target_node_accession, transferred_cell_label, message>>,
           << <<CS1, Neuron, MsgMalformed>> >>) }

\* ------------------------------------------------------- classification
cas_table_postfixes ==
    << <<"_annotation">>, <<"_labelset">>, <<"_metadata">>, <<"_annotation", "_transfer">> >>

\* str.endswith(tuple): some postfix ends the name
EndsWithAny(s, postfixes) == \E i \in 1..Len(postfixes) : EndsWith(s, postfixes[i])

\* lines 152-154, over the rows from position i
RECURSIVE CasTablesFrom(_, _, _)
CasTablesFrom(rws, table_column_index, i) ==
    IF i > Len(rws) THEN <<>>
    ELSE LET name == PyStr(rws[i][table_column_index])
         IN  (IF EndsWithAny(name, cas_table_postfixes) THEN <<name>> ELSE <<>>)
               \o CasTablesFrom(rws, table_column_index, i + 1)

\* the dispatch with `in` where the code has endswith
ParserForContaining(table_name) ==
    IF Contains(table_name, "_metadata") THEN "parse_metadata_data"
    ELSE IF Contains(table_name, "_annotation") THEN "parse_annotation_data"
    ELSE IF Contains(table_name, "_labelset") THEN "parse_labelset_data"
    ELSE "none"

\* lines 23-30: the parser a table name is dispatched to
ParserFor(table_name) ==
    IF EndsWith(table_name, <<"_metadata">>) THEN "parse_metadata_data"
    ELSE IF EndsWith(table_name, <<"_annotation">>) THEN "parse_annotation_data"
    ELSE IF EndsWith(table_name, <<"_labelset">>) THEN "parse_labelset_data"
    ELSE IF EndsWith(table_name, <<"_annotation", "_transfer">>) THEN "parse__annotation_transfer_data"
    ELSE "none"

\* the contents the view {table}_view can have
CandidateViews(table_name) ==
    CASE ParserFor(table_name) = "parse_metadata_data" -> MetadataViews
      [] ParserFor(table_name) = "parse_annotation_data" -> AnnotationViews
      [] ParserFor(table_name) = "parse_labelset_data" -> LabelsetViews
      [] OTHER -> TransferViews

\* -------------------------------------------------------- row handlers
\* lines 72-82: the Annotation of one row
RECURSIVE UserAnnotationsFrom(_, _, _, _)
UserAnnotationsFrom(obj_fields, cols, row, i) ==
    IF i > Len(cols) THEN <<>>
    ELSE (IF cols[i] \notin obj_fields /\ cols[i] \notin {row_number, message}
          THEN <<UserAnnotation(cols[i], PyStr(row[Index(cols, cols[i])]))>>
          ELSE <<>>)
           \o UserAnnotationsFrom(obj_fields, cols, row, i + 1)

AnnotationOfRow(cols, row) ==
    LET res == auto_fill_object_from_row(NewAnnotation, cols, row)
    IN  IF res.err # NoErr THEN res
        ELSE Ok(SetAttr(res.obj, user_annotations,
                        Objs(UserAnnotationsFrom(DOMAIN res.obj, cols, row, 1))))

\* str(c).replace("automated_annotation_", "")
StripPrefix(c) == SelectSeq(c, LAMBDA l : l # "automated_annotation_")
RenamedColumns(cols) == [i \in DOMAIN cols |-> StripPrefix(cols[i])]

\* lines 104-110: the Labelset of one row
LabelsetOfRow(cols, row) ==
    LET renamed_columns == RenamedColumns(cols)
        res == auto_fill_object_from_row(NewLabelset, cols, row)
    IN  IF res.err # NoErr THEN res
        ELSE IF ~Contains(renamed_columns, algorithm_name) THEN Raise("ValueError", res.obj)
        ELSE IF Truthy(row[Index(renamed_columns, algorithm_name)])
             THEN LET aa == auto_fill_object_from_row(NewAutomatedAnnotation, renamed_columns, row)
                  IN  IF aa.err # NoErr THEN Raise(aa.err, res.obj)
                      ELSE Ok(SetAttr(res.obj, automated_annotation, Obj(aa.obj)))
        ELSE res

\* the last annotation with the accession, 0 when there is none
LastMatch(anns, accession) ==
    IF \E i \in 1..Len(anns) : ValEq(anns[i][cell_set_accession], accession)
    THEN CHOOSE i \in 1..Len(anns) :
            /\ ValEq(anns[i][cell_set_accession], accession)
            /\ \A j \in (i + 1)..Len(anns) : ~ValEq(anns[j][cell_set_accession], accession)
    ELSE 0

\* lines 129-131: the first annotation with the accession, 0 when there is none
FirstMatch(anns, accession) ==
    IF \E i \in 1..Len(anns) : ValEq(anns[i][cell_set_accession], accession)
    THEN CHOOSE i \in 1..Len(anns) :
            /\ ValEq(anns[i][cell_set_accession], accession)
            /\ \A j \in 1..(i - 1) : ~ValEq(anns[j][cell_set_accession], accession)
    ELSE 0

\* lines 134-137
AppendTransfer(annotation, at) ==
    SetAttr(annotation, transferred_annotations,
            IF Truthy(annotation[transferred_annotations])
            THEN Objs(Append(annotation[transferred_annotations].v, at))
            ELSE Objs(<<at>>))

\* lines 128-137: one row of the transfer view against the document
TransferRowInto(doc, cols, row) ==
    IF Contains(cols, target_node_accession) /\ Truthy(row[Index(cols, target_node_accession)])
    THEN LET anns == doc[annotations].v
             first == FirstMatch(anns, row[Index(cols, target_node_accession)])
         IN  IF first = 0 THEN Ok(doc)
             ELSE LET at == auto_fill_object_from_row(NewAnnotationTransfer, cols, row)
                  IN  IF at.err # NoErr THEN Raise(at.err, doc)
                      ELSE Ok(SetAttr(doc, annotations,
                                Objs([anns EXCEPT ![first] = AppendTransfer(@, at.obj)])))
    ELSE Ok(doc)

\* ----------------------------------------------------- export_cas_data
VARIABLES
    pc,          \* position in export_cas_data and in the function it is calling
    op,          \* the function being executed
    tbl,         \* table_name of the running parser
    conn,        \* open sqlite connections
    cur,         \* open cursors
    exc,         \* the exception in flight, NoErr when there is none
    db,          \* the views read so far: the database does not change during a run
    catalog,     \* what table_view returned
    cas_tables,  \* the result of get_table_names
    idx,         \* position of the for loop of line 22
    cta,         \* the document
    fetched,     \* columns and rows of the running parser
    r,           \* position of the parser's loop over rows
    lst,         \* the parser's local list (annotations, labelsets)
    aliased,     \* whether lst is the document's own list
    serialized,  \* calls of serialize_to_json
    calls        \* the parser calls made, in order

evars == <<pc, op, tbl, conn, cur, exc, db, catalog, cas_tables, idx, cta, fetched, r,
           lst, aliased, serialized, calls>>

vars == <<evars, fvars>>

NoView == View(<<>>, <<>>)

\* line 19 has run; get_table_names is about to be called
Init ==
    /\ pc = "call"
    /\ op = "get_table_names"
    /\ tbl = <<>>
    /\ conn = 0
    /\ cur = 0
    /\ exc = NoErr
    /\ db = <<>>
    /\ catalog = NoView
    /\ cas_tables = <<>>
    /\ idx = 0
    /\ cta = NewCellTypeAnnotation
    /\ fetched = NoView
    /\ r = 0
    /\ lst = <<>>
    /\ aliased = FALSE
    /\ serialized = 0
    /\ calls = <<>>
    /\ FillInit

\* a handler around the parser call that swallows the exception
PropagatesNever(e) == FALSE

\* an exception leaves every `with` block and the for loop of line 22: nothing catches it
Propagates(e) == e # NoErr

\* close() only at the end of the block, with no `with closing`
ClosedOnSuccessOnly(e) == e = NoErr

\* closing.__exit__ closes whether or not an exception is in flight
ClosedOnExit(e) == TRUE

\* sqlite3.connect(sqlite_db)
Connect ==
    /\ pc = "call"
    /\ conn' = conn + 1
    /\ pc' = "connected"
    /\ UNCHANGED <<op, tbl, cur, exc, db, catalog, cas_tables, idx, cta, fetched, r, lst,
                   aliased, serialized, calls, fvars>>

\* sqlite3.connect raises: the database file cannot be opened
ConnectFail ==
    /\ pc = "call"
    /\ exc' = "OperationalError"
    /\ pc' = "closed"
    /\ UNCHANGED <<op, tbl, conn, cur, db, catalog, cas_tables, idx, cta, fetched, r, lst,
                   aliased, serialized, calls, fvars>>

\* connection.cursor()
OpenCursor ==
    /\ pc = "connected"
    /\ cur' = cur + 1
    /\ pc' = "cursor"
    /\ UNCHANGED <<op, tbl, conn, exc, db, catalog, cas_tables, idx, cta, fetched, r, lst,
                   aliased, serialized, calls, fvars>>

\* lines 149-154: the body of get_table_names
ExecuteCatalog ==
    /\ pc = "cursor"
    /\ op = "get_table_names"
    /\ \E v \in CatalogViews :
        /\ catalog' = v
        /\ IF ~v.exists
           THEN exc' = "OperationalError" /\ cas_tables' = cas_tables
           ELSE IF ~Contains(v.columns, table_column)
           THEN exc' = "ValueError" /\ cas_tables' = cas_tables
           ELSE /\ exc' = exc
                /\ cas_tables' = CasTablesFrom(v.rows, Index(v.columns, table_column), 1)
    /\ pc' = "body_done"
    /\ UNCHANGED <<op, tbl, conn, cur, db, idx, cta, fetched, r, lst, aliased, serialized,
                   calls, fvars>>

\* cursor.execute("SELECT * FROM {}_view").fetchall() and cursor.description of a parser
ExecuteView ==
    /\ pc = "cursor"
    /\ op # "get_table_names"
    /\ \E v \in (IF tbl \in DOMAIN db THEN {db[tbl]} ELSE CandidateViews(tbl)) :
        /\ db' = [n \in DOMAIN db \cup {tbl} |-> IF n = tbl THEN v ELSE db[n]]
        /\ IF ~v.exists
           THEN /\ exc' = "OperationalError"
                /\ pc' = "body_done"
                /\ UNCHANGED <<fetched, r, lst, aliased>>
           ELSE /\ exc' = exc
                /\ fetched' = v
                /\ r' = 1
                /\ pc' = IF Len(v.rows) > 0 THEN "rows" ELSE "body_done"
                /\ aliased' = CASE op = "parse_annotation_data" -> Truthy(cta[annotations])
                                [] op = "parse_labelset_data" -> Truthy(cta[labelsets])
                                [] OTHER -> FALSE
                /\ lst' = CASE op = "parse_annotation_data" /\ Truthy(cta[annotations]) ->
                                 cta[annotations].v
                            [] op = "parse_labelset_data" /\ Truthy(cta[labelsets]) ->
                                 cta[labelsets].v
                            [] OTHER -> <<>>
    /\ UNCHANGED <<op, tbl, conn, cur, catalog, cas_tables, idx, cta, serialized, calls, fvars>>

\* lines 49-51: the first row of the metadata view fills the document
MetadataRow ==
    /\ pc = "rows"
    /\ op = "parse_metadata_data"
    /\ LET res == auto_fill_object_from_row(cta, fetched.columns, fetched.rows[1])
       IN  /\ cta' = res.obj
           /\ exc' = res.err
    /\ pc' = "body_done"
    /\ UNCHANGED <<op, tbl, conn, cur, db, catalog, cas_tables, idx, fetched, r, lst, aliased,
                   serialized, calls, fvars>>

\* one iteration of a loop that appends to lst, and the assignment after the last one
AppendRow(res, field) ==
    IF res.err # NoErr
    THEN /\ exc' = res.err
         /\ pc' = "body_done"
         /\ UNCHANGED <<cta, lst, r>>
    ELSE /\ exc' = exc
         /\ lst' = Append(lst, res.obj)
         /\ r' = r + 1
         /\ pc' = IF r = Len(fetched.rows) THEN "body_done" ELSE "rows"
         /\ cta' = IF aliased \/ r = Len(fetched.rows)
                   THEN SetAttr(cta, field, Objs(Append(lst, res.obj)))
                   ELSE cta

\* lines 71-83
AnnotationRow ==
    /\ pc = "rows"
    /\ op = "parse_annotation_data"
    /\ AppendRow(AnnotationOfRow(fetched.columns, fetched.rows[r]), annotations)
    /\ UNCHANGED <<op, tbl, conn, cur, db, catalog, cas_tables, idx, fetched, aliased,
                   serialized, calls, fvars>>

\* lines 103-112
LabelsetRow ==
    /\ pc = "rows"
    /\ op = "parse_labelset_data"
    /\ AppendRow(LabelsetOfRow(fetched.columns, fetched.rows[r]), labelsets)
    /\ UNCHANGED <<op, tbl, conn, cur, db, catalog, cas_tables, idx, fetched, aliased,
                   serialized, calls, fvars>>

\* lines 127-137
TransferRow ==
    /\ pc = "rows"
    /\ op = "parse__annotation_transfer_data"
    /\ LET res == TransferRowInto(cta, fetched.columns, fetched.rows[r])
       IN  /\ cta' = res.obj
           /\ exc' = res.err
           /\ IF res.err # NoErr
              THEN pc' = "body_done" /\ r' = r
              ELSE /\ r' = r + 1
                   /\ pc' = IF r = Len(fetched.rows) THEN "body_done" ELSE "rows"
    /\ UNCHANGED <<op, tbl, conn, cur, db, catalog, cas_tables, idx, fetched, lst, aliased,
                   serialized, calls, fvars>>

\* the inner `with closing(connection.cursor())` is left
CloseCursor ==
    /\ pc = "body_done"
    /\ cur' = IF ClosedOnExit(exc) THEN cur - 1 ELSE cur
    /\ pc' = "cursor_closed"
    /\ UNCHANGED <<op, tbl, conn, exc, db, catalog, cas_tables, idx, cta, fetched, r, lst,
                   aliased, serialized, calls, fvars>>

\* the outer `with closing(sqlite3.connect(...))` is left
CloseConnection ==
    /\ pc = "cursor_closed"
    /\ conn' = IF ClosedOnExit(exc) THEN conn - 1 ELSE conn
    /\ pc' = "closed"
    /\ UNCHANGED <<op, tbl, cur, exc, db, catalog, cas_tables, idx, cta, fetched, r, lst,
                   aliased, serialized, calls, fvars>>

\* the called function returns to export_cas_data, or its exception leaves export_cas_data
Return ==
    /\ pc = "closed"
    /\ IF Propagates(exc)
       THEN pc' = "failed" /\ idx' = idx
       ELSE pc' = "loop" /\ idx' = idx + 1
    /\ exc' = IF Propagates(exc) THEN exc ELSE NoErr
    /\ fetched' = NoView
    /\ r' = 0
    /\ lst' = <<>>
    /\ aliased' = FALSE
    /\ UNCHANGED <<op, tbl, conn, cur, db, catalog, cas_tables, cta, serialized, calls, fvars>>

\* lines 22-30: the next table is handed to its parser
Dispatch ==
    /\ pc = "loop"
    /\ idx <= Len(cas_tables)
    /\ tbl' = cas_tables[idx]
    /\ op' = ParserFor(cas_tables[idx])
    /\ IF ParserFor(cas_tables[idx]) = "none"
       THEN pc' = "loop" /\ idx' = idx + 1 /\ calls' = calls
       ELSE /\ pc' = "call"
            /\ idx' = idx
            /\ calls' = Append(calls, [parser |-> ParserFor(cas_tables[idx]),
                                       table |-> cas_tables[idx]])
    /\ UNCHANGED <<conn, cur, exc, db, catalog, cas_tables, cta, fetched, r, lst, aliased,
                   serialized, fvars>>

\* lines 32-34: serialize_to_json, then the document is returned
Serialize ==
    /\ pc = "loop"
    /\ idx > Len(cas_tables)
    /\ serialized' = serialized + 1
    /\ pc' = "done"
    /\ UNCHANGED <<op, tbl, conn, cur, exc, db, catalog, cas_tables, idx, cta, fetched, r, lst,
                   aliased, calls, fvars>>

Next ==
    \/ Connect
    \/ ConnectFail
    \/ OpenCursor
    \/ ExecuteCatalog
    \/ ExecuteView
    \/ MetadataRow
    \/ AnnotationRow
    \/ LabelsetRow
    \/ TransferRow
    \/ CloseCursor
    \/ CloseConnection
    \/ Return
    \/ Dispatch
    \/ Serialize

Spec == Init /\ [][Next]_vars

\* the row mapper alone, on every entity, column list and row within the bounds
FillNext == FillCall /\ UNCHANGED evars

SpecFill == Init /\ [][FillNext]_vars

\* ================================================================ claims
MessageOf(cols, row) == row[Index(cols, message)]
HasMessage(cols, row) == Contains(cols, message) /\ Truthy(MessageOf(cols, row))

\* the value of the last override of a decoded message that names the column
LastOverride(messages, column) ==
    LET K == {k \in 1..Len(messages) :
                 "column" \in DOMAIN messages[k] /\ messages[k]["column"].v = column}
        last == CHOOSE k \in K : \A j \in K : j <= k
    IN  messages[last]["value"]

\* C1: when the mapper returns on a row whose message decodes to a list of overrides,
\* the field named by every override whose column is in the column list holds the
\* value of the last override for that column, whatever the positional value was.
C1_OverridesWin ==
    (fpc = "returned" /\ fres.err = NoErr /\ HasMessage(fcolumns, frow)
       /\ JsonLoads(MessageOf(fcolumns, frow).v).ok) =>
        LET messages == JsonLoads(MessageOf(fcolumns, frow).v).val
        IN  \A k \in 1..Len(messages) :
                ("column" \in DOMAIN messages[k] /\ Contains(fcolumns, messages[k]["column"].v)) =>
                    /\ HasAttr(fres.obj, messages[k]["column"].v)
                    /\ ValEq(fres.obj[messages[k]["column"].v],
                             LastOverride(messages, messages[k]["column"].v))

\* C1 witness: an override of cell_label won over a different, non-empty positional value
C1_Witness ==
    /\ fpc = "returned"
    /\ fres.err = NoErr
    /\ Contains(fcolumns, cell_label)
    /\ frow[Index(fcolumns, cell_label)] = Neuron
    /\ HasMessage(fcolumns, frow)
    /\ MessageOf(fcolumns, frow) = MsgTwice
    /\ fres.obj[cell_label] = Str(<<"Second">>)
    /\ fcolumns[Len(fcolumns)] = cell_label

Bracketed(x) == x.t = "str" /\ StartsWith(x.v, <<"[">>) /\ EndsWith(x.v, <<"]">>)

\* C2: on a row with no message column, or an empty one, the mapper raises no error,
\* every native field with a non-empty positional value holds that value (a bracketed
\* text holds a parsed sequence), and every other native field keeps its default.
C2_PositionalVerbatim ==
    (fpc = "returned" /\ ~HasMessage(fcolumns, frow)) =>
        /\ fres.err = NoErr
        /\ \A i \in 1..Len(fcolumns) :
            HasAttr(fobj, fcolumns[i]) =>
                IF ~Truthy(frow[i]) THEN ValEq(fres.obj[fcolumns[i]], fobj[fcolumns[i]])
                ELSE IF Bracketed(frow[i]) THEN fres.obj[fcolumns[i]].t = "list"
                ELSE ValEq(fres.obj[fcolumns[i]], frow[i])

\* C10: the mapper creates no field: the entity has the same fields after the call.
C10_NoFieldCreated ==
    fpc = "returned" => DOMAIN fres.obj = DOMAIN fobj

\* the user annotations the claim expects of a row: one per column that is no native
\* Annotation field and not reserved, in column order, with the row's text
RECURSIVE ExpectedUserAnnotations(_, _, _)
ExpectedUserAnnotations(cols, row, i) ==
    IF i > Len(cols) THEN <<>>
    ELSE (IF cols[i] \in DOMAIN NewAnnotation \cup {row_number, message} THEN <<>>
          ELSE <<[label |-> cols[i], value |-> PyStr(row[i])]>>)
           \o ExpectedUserAnnotations(cols, row, i + 1)

\* C3: the Annotation appended for a row carries exactly one UserAnnotation per column
\* that is neither a native field nor row_number nor message, with the row's text.
C3_UserAnnotationsExact ==
    [][(pc = "rows" /\ op = "parse_annotation_data" /\ exc' = NoErr) =>
          lst'[Len(lst')][user_annotations]
            = Objs(ExpectedUserAnnotations(fetched.columns, fetched.rows[r], 1))]_vars

\* whether the row has a non-empty value under a column that is algorithm_name once
\* the prefix is stripped
HasAlgorithm(cols, row) ==
    \E i \in 1..Len(cols) : StripPrefix(cols[i]) = algorithm_name /\ Truthy(row[i])

\* C4: every labelset row appends a Labelset without error; it carries an
\* AutomatedAnnotation exactly when its prefix-stripped algorithm_name is non-empty,
\* also when the view has no algorithm_name column.
C4_AutomatedAnnotationIff ==
    [][(pc = "rows" /\ op = "parse_labelset_data") =>
          /\ exc' = NoErr
          /\ Len(lst') = Len(lst) + 1
          /\ Truthy(lst'[Len(lst')][automated_annotation])
               <=> HasAlgorithm(fetched.columns, fetched.rows[r])]_vars

Transfers(annotation) ==
    IF Truthy(annotation[transferred_annotations])
    THEN annotation[transferred_annotations].v ELSE <<>>

CalledTables(parser) ==
    {calls[i].table : i \in {j \in 1..Len(calls) : calls[j].parser = parser}}

\* the accessions the annotation views list
ListedAccessions ==
    UNION {{db[t].rows[k][Index(db[t].columns, cell_set_accession)] :
              k \in 1..Len(db[t].rows)} :
           t \in {u \in CalledTables("parse_annotation_data") \cap DOMAIN db :
                     Contains(db[u].columns, cell_set_accession)}}

\* the targets the transfer views name
ListedTargets ==
    UNION {{db[t].rows[k][Index(db[t].columns, target_node_accession)] :
              k \in 1..Len(db[t].rows)} :
           t \in {u \in CalledTables("parse__annotation_transfer_data") \cap DOMAIN db :
                     Contains(db[u].columns, target_node_accession)}}

\* C6: when the export ends, every annotation table was parsed before any transfer
\* table, and every transfer row whose target is the accession of an annotation row
\* of the database is attached to an Annotation of the document.
C6_AnnotationsBeforeTransfers ==
    pc = "done" =>
        /\ \A i, j \in 1..Len(calls) :
              (calls[i].parser = "parse__annotation_transfer_data"
                 /\ calls[j].parser = "parse_annotation_data") => j < i
        /\ \A target \in ListedTargets :
              (Truthy(target) /\ \E a \in ListedAccessions : ValEq(a, target)) =>
                  \E k \in 1..Len(cta[annotations].v) :
                      /\ ValEq(cta[annotations].v[k][cell_set_accession], target)
                      /\ Len(Transfers(cta[annotations].v[k])) > 0

\* the names table_view lists
CatalogNames == [i \in DOMAIN catalog.rows |-> catalog.rows[i][Index(catalog.columns, table_column)].v]

\* whether a name ends with a recognised suffix, read off its last lexemes
Recognised(name) ==
    /\ Len(name) >= 1
    /\ \/ name[Len(name)] \in {"_annotation", "_labelset", "_metadata"}
       \/ Len(name) >= 2 /\ name[Len(name)] = "_transfer" /\ name[Len(name) - 1] = "_annotation"

\* the parser the claim gives a recognised name
ExpectedParser(name) ==
    CASE name[Len(name)] = "_annotation" -> "parse_annotation_data"
      [] name[Len(name)] = "_labelset" -> "parse_labelset_data"
      [] name[Len(name)] = "_metadata" -> "parse_metadata_data"
      [] OTHER -> "parse__annotation_transfer_data"

\* C7: get_table_names returns the catalog's names with a recognised suffix, in catalog
\* order and with duplicates kept, and each is dispatched, in that order, to the one
\* parser of its suffix.
C7_ClassifyAndDispatch ==
    (catalog.exists /\ Contains(catalog.columns, table_column)) =>
        /\ cas_tables = SelectSeq(CatalogNames, Recognised)
        /\ Len(calls) <= Len(cas_tables)
        /\ \A i \in 1..Len(calls) :
              /\ calls[i].table = cas_tables[i]
              /\ calls[i].parser = ExpectedParser(cas_tables[i])
        /\ pc = "done" => Len(calls) = Len(cas_tables)

\* C7 witness: an export ended on a catalog with a duplicate and an unrecognised name
C7_Witness ==
    /\ pc = "done"
    /\ CatalogNames = <<t_annotation, table_table, t_annotation>>
    /\ Len(calls) = 2

\* C8: the serializer is called at most once, only after every classified table was
\* parsed without error; once an exception is in flight no table is parsed, the
\* serializer is not called, no document is returned and the exception stays.
C8_SerializeOnlyAfterAll ==
    /\ [](/\ serialized <= 1
          /\ serialized = 1 =>
                /\ pc = "done"
                /\ exc = NoErr
                /\ Len(calls) = Len(cas_tables)
                /\ catalog.exists
          /\ pc = "done" => serialized = 1
          /\ pc = "failed" => exc # NoErr /\ serialized = 0)
    /\ [][exc # NoErr =>
            /\ exc' = exc
            /\ calls' = calls
            /\ serialized' = 0
            /\ pc' \in {"body_done", "cursor_closed", "closed", "failed"}]_vars

\* C8 witness: a parser failed with a classified table still to parse
C8_Witness ==
    /\ pc = "failed"
    /\ Len(calls) = 2
    /\ Len(cas_tables) = 3
    /\ serialized = 0

\* C9: at most one connection and one cursor are open; none is open when a function
\* has returned or failed, nor when the export ends.
C9_ScopedConnections ==
    /\ conn \in {0, 1}
    /\ cur \in {0, 1}
    /\ cur <= conn
    /\ pc \in {"call", "closed", "loop", "done", "failed"} => conn = 0 /\ cur = 0

\* C9 witness: a parser raised inside its `with` blocks and the export failed
C9_Witness ==
    /\ pc = "failed"
    /\ exc = "JSONDecodeError"
    /\ op = "parse__annotation_transfer_data"
    /\ conn = 0

====
